---- MODULE Spec2Model ----
(***************************************************************************)
(* Model of the Qubic fraud backend (src/server.js): the in-memory         *)
(* transaction log, the wallet statistics map, the id counter, the risk    *)
(* scoring function and the HTTP handlers that read and write them.        *)
(*                                                                         *)
(* JavaScript values that may be something other than a finite number are  *)
(* records [t, num, den]: t is the kind ("number", "NaN", "undefined",     *)
(* "null", "string", "function"), and num/den the value of a number as a   *)
(* fraction in lowest terms (the mean of integer scores is a rational).    *)
(* Fields the code always holds as integers (id, amount, tick) are plain   *)
(* integers.                                                               *)
(***************************************************************************)
EXTENDS Integers, Sequences, FiniteSets, TLC

VARIABLES
    transactions,   \* the log: sequence of stored transactions, oldest first
    walletStats,    \* own properties of walletStats: snapshots in insertion order
    objectFn,       \* properties set on the inherited walletStats.constructor
    nextId,         \* the id counter
    now,            \* the last reading of the wall clock by new Date()
    res,            \* the response to the last request
    probe           \* one call of computeRisk: its arguments and its result

vars == <<transactions, walletStats, objectFn, nextId, now, res, probe>>

(* ------------------------------ bounds --------------------------------- *)

\* number of POST /api/transactions requests that reach the handler
MaxTx == 2

\* last reading of the wall clock
MaxClock == 1

\* largest txCount of a snapshot handed to a probed computeRisk call
ProbeMaxCount == 6

(* --------------------------- JavaScript values ------------------------- *)

RECURSIVE Gcd(_, _)
Gcd(a, b) == IF b = 0 THEN a ELSE Gcd(b, a % b)

Abs(x) == IF x < 0 THEN -x ELSE x

Min(a, b) == IF a < b THEN a ELSE b

\* the number n/d (d > 0), in lowest terms
Rat(n, d) ==
    LET g == Gcd(Abs(n), d)
    IN  [t |-> "number", num |-> n \div g, den |-> d \div g]

Num(n) == [t |-> "number", num |-> n, den |-> 1]

NaN == [t |-> "NaN", num |-> 0, den |-> 1]

Undefined == [t |-> "undefined", num |-> 0, den |-> 1]

Null == [t |-> "null", num |-> 0, den |-> 1]

\* a string that is not the text of a number
Str == [t |-> "string", num |-> 0, den |-> 1]

\* a function object (an inherited member of Object.prototype)
Fn == [t |-> "function", num |-> 0, den |-> 1]

\* a JSON object whose own toString is not a function, such as
\* {"toString": 1}: converting it to a number, a string or a property key
\* throws a TypeError
Obj == [t |-> "object", num |-> 0, den |-> 1]

\* the conversion of v to a primitive throws
Unconvertible(v) == v.t = "object"

\* ToNumber: undefined, functions and non-numeric strings give NaN, null 0
ToNumber(v) ==
    CASE v.t = "number" -> v
      [] v.t = "null"   -> Num(0)
      [] OTHER          -> NaN

\* ToBoolean
Truthy(v) ==
    CASE v.t = "number"    -> v.num # 0
      [] v.t = "string"    -> TRUE
      [] v.t = "function"  -> TRUE
      [] v.t = "object"    -> TRUE
      [] OTHER             -> FALSE

\* a + b: concatenation when either operand is a string or an object
JsAdd(a, b) ==
    IF a.t \in {"string", "function"} \/ b.t \in {"string", "function"}
    THEN Str
    ELSE LET x == ToNumber(a)
             y == ToNumber(b)
         IN  IF x.t = "NaN" \/ y.t = "NaN" THEN NaN
             ELSE Rat(x.num * y.den + y.num * x.den, x.den * y.den)

\* a * b and a / b (b a positive integer in every use by the program)
JsMul(a, b) ==
    LET x == ToNumber(a)
        y == ToNumber(b)
    IN  IF x.t = "NaN" \/ y.t = "NaN" THEN NaN
        ELSE Rat(x.num * y.num, x.den * y.den)

JsSub(a, b) ==
    LET x == ToNumber(a)
        y == ToNumber(b)
    IN  IF x.t = "NaN" \/ y.t = "NaN" THEN NaN
        ELSE Rat(x.num * y.den - y.num * x.den, x.den * y.den)

JsDiv(a, b) ==
    LET x == ToNumber(a)
        y == ToNumber(b)
    IN  IF x.t = "NaN" \/ y.t = "NaN" \/ y.num <= 0 THEN NaN
        ELSE Rat(x.num * y.den, x.den * y.num)

\* a >= n, a <= n, a > n for an integer n: false when a is not a number
JsGe(a, n) == LET x == ToNumber(a) IN x.t = "number" /\ x.num >= n * x.den

\* the comparison written the other way round: a >= n
JsLe_WrittenAsGe(a, n) ==
    LET x == ToNumber(a) IN x.t = "number" /\ x.num >= n * x.den

JsLe(a, n) == LET x == ToNumber(a) IN x.t = "number" /\ x.num <= n * x.den

JsGt(a, n) == LET x == ToNumber(a) IN x.t = "number" /\ x.num > n * x.den

\* x || 0 on an integer
OrZero(x) == IF x = 0 THEN 0 ELSE x

\* s || "" on a string
OrEmpty(s) == IF s = "" THEN "" ELSE s

\* property names every object literal inherits from Object.prototype; the
\* model carries one of them
ObjectPrototypeKeys == {"constructor"}

(* ------------------------------ scoring -------------------------------- *)

riskLevelFromScore(score) ==
    IF JsGe(score, 85) THEN "CRITICAL"
    ELSE IF JsGe(score, 65) THEN "HIGH"
    ELSE IF JsGe(score, 40) THEN "MEDIUM"
    ELSE "LOW"

\* procedureRiskTable[procedure]
procedureRiskTable(procedure) ==
    CASE procedure = "QxAddToBidOrder" -> Num(20)
      [] procedure = "TransferShareOwnershipAndPossession" -> Num(30)
      [] procedure = "IssueAsset" -> Num(35)
      [] procedure \in ObjectPrototypeKeys -> Fn
      [] OTHER -> Undefined

\* a reason string; arg is the procedure name interpolated into it, if any
Reason(text, arg) == [text |-> text, arg |-> arg]

\* one conditional block of computeRisk: score += weight; reasons.push(reason)
Rule(fires, weight, text, arg) ==
    [fires |-> fires, weight |-> weight, reason |-> Reason(text, arg)]

\* the conditional blocks of computeRisk in the order the code runs them;
\* walletInfo is [t, o]: t is "undefined", or "object" / "function" with the
\* snapshot fields o
RiskRules(tx, walletInfo) ==
    LET amount    == OrZero(tx.amount)
        tick      == OrZero(tx.tick)
        procedure == OrEmpty(tx.procedure)
        src       == OrEmpty(tx.source)
        dest      == OrEmpty(tx.dest)
        entry     == procedureRiskTable(procedure)
        hasInfo   == walletInfo.t # "undefined"
        w         == walletInfo.o
    IN  << \* 1. amount-based risk
           Rule(amount >= 1000000, Num(45),
                "Very large transaction amount (>= 1M QU)", ""),
           Rule(amount < 1000000 /\ amount >= 100000, Num(30),
                "Large transaction amount (>= 100k QU)", ""),
           Rule(amount < 100000 /\ amount >= 10000, Num(15),
                "Moderate transaction amount (>= 10k QU)", ""),
           \* 2. procedure type risk
           Rule(Truthy(entry), entry, "High-risk procedure type", procedure),
           Rule(~Truthy(entry) /\ procedure # "", Num(5),
                "Unknown / less common procedure", procedure),
           \* 3. wallet activity and age
           Rule(hasInfo /\ JsLe(w.txCount, 2) /\ amount >= 10000, Num(20),
                "New wallet sending large amount", ""),
           Rule(hasInfo /\ JsGe(w.txCount, 5) /\ amount >= 50000, Num(15),
                "Experienced wallet doing unusually large transfer", ""),
           Rule(/\ hasInfo
                /\ w.lastTick.t \notin {"null", "undefined"}
                /\ Abs(tick - w.lastTick.num) <= 3,
                Num(20), "Rapid burst of transactions in a short tick window", ""),
           Rule(hasInfo /\ JsGe(w.avgRisk, 60), Num(10),
                "Wallet already has history of risky transactions", ""),
           Rule(~hasInfo /\ amount >= 10000, Num(10),
                "Brand new wallet with significant amount", ""),
           \* 4. address pattern
           Rule(src # "" /\ dest # "" /\ src = dest, Num(10),
                "Source and destination wallet are identical", "") >>

\* score after running the blocks of rules from score
RECURSIVE RunRules(_, _)
RunRules(score, rules) ==
    IF rules = <<>> THEN score
    ELSE RunRules(IF Head(rules).fires THEN JsAdd(score, Head(rules).weight)
                  ELSE score,
                  Tail(rules))

\* if (score > 100) score = 100
HardCap(score) == IF JsGt(score, 100) THEN Num(100) ELSE score

Fires(rule) == rule.fires

computeRisk(tx, walletInfo) ==
    LET fired == SelectSeq(RiskRules(tx, walletInfo), Fires)
        score == HardCap(RunRules(Num(0), fired))
    IN  [score |-> score,
         level |-> riskLevelFromScore(score),
         reasons |-> [i \in 1..Len(fired) |-> fired[i].reason]]

(* --------------------------- wallet statistics ------------------------- *)

\* the object literal created for a wallet on its first update
NewSnapshot(walletId) ==
    [walletId |-> walletId, txCount |-> Num(0), totalVolume |-> Num(0),
     avgRisk |-> Num(0), lastTick |-> Null, lastTime |-> Null]

\* the snapshot fields as read off the inherited function before any write
BareFn ==
    [walletId |-> "", txCount |-> Undefined, totalVolume |-> Undefined,
     avgRisk |-> Undefined, lastTick |-> Undefined, lastTime |-> Undefined]

\* position of walletId among the own properties of stats, 0 when absent
IndexOf(stats, walletId) ==
    IF \E i \in 1..Len(stats) : stats[i].walletId = walletId
    THEN CHOOSE i \in 1..Len(stats) : stats[i].walletId = walletId
    ELSE 0

\* stats[walletId]: an own snapshot, an inherited member, or undefined
WalletGet(stats, ofn, walletId) ==
    IF IndexOf(stats, walletId) # 0
    THEN [t |-> "object", o |-> stats[IndexOf(stats, walletId)]]
    ELSE IF walletId \in ObjectPrototypeKeys THEN [t |-> "function", o |-> ofn]
    ELSE [t |-> "undefined", o |-> BareFn]

\* the mean taken as if txCount had not been incremented yet:
\* (w.avgRisk * w.txCount + txRisk.score) / (w.txCount + 1)
RollingAvg_CountNotYetIncremented(avgRisk, txCount, score) ==
    JsDiv(JsAdd(JsMul(avgRisk, txCount), score), JsAdd(txCount, Num(1)))

\* (w.avgRisk * (w.txCount - 1) + txRisk.score) / w.txCount, txCount being
\* the count already incremented
RollingAvg(avgRisk, txCount, score) ==
    JsDiv(JsAdd(JsMul(avgRisk, JsSub(txCount, Num(1))), score), txCount)

\* st is [stats, ofn]; the result is st after the update
updateWalletStats(st, walletId, txRisk, tx, clock) ==
    IF walletId = "" THEN st
    ELSE
      LET found   == WalletGet(st.stats, st.ofn, walletId)
          w       == IF found.t = "undefined" THEN NewSnapshot(walletId)
                     ELSE found.o
          txCount == JsAdd(w.txCount, Num(1))
          updated ==
              [w EXCEPT
                 !.txCount = txCount,
                 !.totalVolume = JsAdd(w.totalVolume, Num(OrZero(tx.amount))),
                 !.avgRisk = RollingAvg(w.avgRisk, txCount, txRisk.score),
                 !.lastTick = IF tx.tick # 0 THEN Num(tx.tick) ELSE w.lastTick,
                 !.lastTime = Num(clock)]
      IN  CASE found.t = "function" -> [stats |-> st.stats, ofn |-> updated]
            [] found.t = "undefined" ->
                 [stats |-> Append(st.stats, updated), ofn |-> st.ofn]
            [] OTHER ->
                 [stats |-> [st.stats EXCEPT ![IndexOf(st.stats, walletId)] = updated],
                  ofn |-> st.ofn]

(* ------------------------------ requests ------------------------------- *)

\* a string field of a JSON body: present or missing
SVal(s) == [t |-> "string", s |-> s]

SMissing == [t |-> "undefined", s |-> ""]

\* the object {"toString": 1} sent where a string is expected; s is the text
\* that stands for it in a stored transaction, equal to no wallet id
SObj == [t |-> "object", s |-> "{toString:1}"]

\* Number(v) || 0
NumberOrZero(v) ==
    LET x == ToNumber(v)
    IN  IF x.t = "number" /\ x.num # 0 THEN x.num ELSE 0

\* v || ""
StringOrEmpty(v) == IF v.t \in {"string", "object"} /\ v.s # "" THEN v.s ELSE ""

Event(amount, source, dest, tick, procedure) ==
    [amount |-> amount, source |-> source, dest |-> dest, tick |-> tick,
     procedure |-> procedure]

NoFields == Event(Undefined, SMissing, SMissing, Undefined, SMissing)

\* the body {...fields} and the body {data: {...fields}}
Flat(e) == [data |-> [t |-> "undefined", o |-> NoFields]] @@ e

Wrapped(e) == [data |-> [t |-> "object", o |-> e]] @@ NoFields

\* the events the model posts
Events ==
    { Event(Num(250000), SVal("0xA1B2"), SVal("0xC3D4"), Num(12045),
            SVal("QxAddToBidOrder")),
      Event(Num(60000), SVal("0xA1B2"), SVal("0xC3D4"), Num(12046), SMissing),
      Event(Num(60000), SVal("0xA1B2"), SVal("0xC3D4"), Num(12046),
            SVal("QxAddToBidOrder")),
      Event(Num(60000), SVal("0xA1B2"), SVal("0xC3D4"), Num(12046),
            SVal("TransferShareOwnershipAndPossession")),
      Event(Num(1000000), SVal("0xA1B2"), SVal("0xA1B2"), Num(12046),
            SVal("IssueAsset")),
      Event(Undefined, SVal("0xC3D4"), SMissing, Undefined, SMissing),
      Event(Str, SVal("0xC3D4"), SVal(""), Num(0), SVal("")),
      Event(Num(250000), SVal("0xC3D4"), SVal("0xA1B2"), Num(12050),
            SVal("constructor")),
      Event(Num(60000), SVal("constructor"), SVal("0xC3D4"), Num(12045),
            SVal("Swap")),
      Event(Num(-500), SMissing, SVal("0xA1B2"), Num(12046), SVal("Swap")),
      Event(Obj, SVal("0xA1B2"), SVal("0xC3D4"), Num(12046), SMissing),
      Event(Num(60000), SObj, SVal("0xC3D4"), Num(12046), SMissing),
      Event(Num(60000), SVal("0xA1B2"), SObj, Num(12046), SMissing) }

\* the events that are also posted inside {data: ...}
WrappedEvents ==
    { Event(Num(250000), SVal("0xA1B2"), SVal("0xC3D4"), Num(12045),
            SVal("QxAddToBidOrder")),
      Event(Str, SVal("0xC3D4"), SVal(""), Num(0), SVal("")),
      Event(Obj, SVal("0xA1B2"), SVal("0xC3D4"), Num(12046), SMissing) }

Bodies == {Flat(e) : e \in Events} \cup {Wrapped(e) : e \in WrappedEvents}

\* the counter left as it was: id: nextId in place of id: nextId++
Incremented_Forgotten(n) == n

\* nextId++: the counter after the post-increment
Incremented(n) == n + 1

\* the readings new Date() may give after the reading last: the clock does
\* not run backwards, and the model lets it advance one unit per request
ClockReadings(last) == {t \in {last, last + 1} : t <= MaxClock}

\* the handler throws while it builds tx: Number(raw.amount), Number(raw.tick)
ThrowsInNumber(raw) == Unconvertible(raw.amount) \/ Unconvertible(raw.tick)

\* the handler throws before transactions.push: walletStats[tx.source], or
\* procedureRiskTable[procedure] in computeRisk
ThrowsInLookup(raw) == Unconvertible(raw.source) \/ Unconvertible(raw.procedure)

\* the handler throws in updateWalletStats(tx.dest, ..): walletStats[walletId]
ThrowsInDestUpdate(raw) == Unconvertible(raw.dest)

\* the answer of the framework's error handler to an exception in a handler
ServerError ==
    [route |-> "POST /api/transactions", status |-> 500,
     body |-> [text |-> "TypeError: Cannot convert object to primitive value"]]

\* POST /api/transactions, the clock reading clock during the request
PostTransaction(body, clock) ==
    /\ nextId <= MaxTx
    /\ LET raw == IF body.data.t = "object" THEN body.data.o ELSE body
       IN  IF ThrowsInNumber(raw)
           THEN /\ nextId' = Incremented(nextId)
                /\ res' = ServerError
                /\ UNCHANGED <<transactions, walletStats, objectFn, now>>
           ELSE IF ThrowsInLookup(raw)
           THEN /\ nextId' = Incremented(nextId)
                /\ res' = ServerError
                /\ now' = clock
                /\ UNCHANGED <<transactions, walletStats, objectFn>>
           ELSE
             LET tx == [id |-> nextId,
                        amount |-> NumberOrZero(raw.amount),
                        source |-> StringOrEmpty(raw.source),
                        dest |-> StringOrEmpty(raw.dest),
                        tick |-> NumberOrZero(raw.tick),
                        procedure |-> StringOrEmpty(raw.procedure),
                        time |-> clock]
                 walletInfo == WalletGet(walletStats, objectFn, tx.source)
                 risk == computeRisk(tx, walletInfo)
                 stored == tx @@ [riskScore |-> risk.score, riskLevel |-> risk.level,
                                  reasons |-> risk.reasons]
                 st0 == [stats |-> walletStats, ofn |-> objectFn]
                 st1 == updateWalletStats(st0, tx.source, risk, tx, clock)
                 st2 == IF ThrowsInDestUpdate(raw) THEN st1
                        ELSE updateWalletStats(st1, tx.dest, risk, tx, clock)
             IN  /\ nextId' = Incremented(nextId)
                 /\ transactions' = Append(transactions, stored)
                 /\ walletStats' = st2.stats
                 /\ objectFn' = st2.ofn
                 /\ res' = IF ThrowsInDestUpdate(raw) THEN ServerError
                           ELSE [route |-> "POST /api/transactions", status |-> 200,
                                 body |-> [status |-> "ok", transaction |-> stored]]
                 /\ now' = clock
    /\ UNCHANGED probe

(* ------------------------------- reads --------------------------------- *)

\* a query parameter: present or missing
QMissing == SMissing

\* String.prototype.toUpperCase on the level names the model sends
ToUpperCase(s) ==
    CASE s = "low" -> "LOW"
      [] s = "medium" -> "MEDIUM"
      [] s = "high" -> "HIGH"
      [] s = "High" -> "HIGH"
      [] s = "critical" -> "CRITICAL"
      [] OTHER -> s

\* parseInt(text, 10) on the limit texts the model sends
ParseInt(text) ==
    CASE text = "0" -> Num(0)
      [] text = "1" -> Num(1)
      [] text = "2" -> Num(2)
      [] text = "-1" -> Num(-1)
      [] OTHER -> NaN

\* Array.prototype.slice(start): start is a JavaScript number, NaN counts as 0
Slice(seq, start) ==
    LET k    == IF start.t = "number" THEN start.num ELSE 0
        from == IF k < 0 THEN (IF Len(seq) + k < 0 THEN 0 ELSE Len(seq) + k)
                ELSE Min(k, Len(seq))
    IN  SubSeq(seq, from + 1, Len(seq))

\* Array.prototype.slice(0, end) for 0 <= end
SliceHead(seq, end) == SubSeq(seq, 1, Min(end, Len(seq)))

Reverse(seq) == [i \in 1..Len(seq) |-> seq[Len(seq) + 1 - i]]

\* -x
JsNeg(x) == JsSub(Num(0), x)

\* GET /api/transactions?level=..&limit=..
TransactionsBody(level, limit) ==
    LET Match(t) == ToUpperCase(t.riskLevel) = ToUpperCase(level.s)
        filtered == IF level.t = "string" /\ level.s # ""
                    THEN SelectSeq(transactions, Match)
                    ELSE transactions
        lim == IF limit.t = "string" /\ limit.s # ""
               THEN ParseInt(limit.s)
               ELSE Num(Len(filtered))
    IN  Reverse(Slice(filtered, JsNeg(lim)))

GetTransactions(level, limit) ==
    /\ res' = [route |-> "GET /api/transactions", status |-> 200,
               body |-> [list |-> TransactionsBody(level, limit)]]
    /\ UNCHANGED <<transactions, walletStats, objectFn, nextId, now, probe>>

\* transactions.reduce((sum, t) => sum + t.amount, 0)
RECURSIVE SumAmounts(_)
SumAmounts(seq) ==
    IF seq = <<>> THEN 0
    ELSE SumAmounts(SubSeq(seq, 1, Len(seq) - 1)) + seq[Len(seq)].amount

\* the counters of a loop that starts at the second transaction
CountLevels_SkipsOldest(seq) ==
    [LOW |-> Cardinality({i \in 2..Len(seq) : seq[i].riskLevel = "LOW"}),
     MEDIUM |-> Cardinality({i \in 2..Len(seq) : seq[i].riskLevel = "MEDIUM"}),
     HIGH |-> Cardinality({i \in 2..Len(seq) : seq[i].riskLevel = "HIGH"}),
     CRITICAL |-> Cardinality({i \in 2..Len(seq) : seq[i].riskLevel = "CRITICAL"})]

\* the byLevel counters after the forEach over the log
RECURSIVE CountLevels(_)
CountLevels(seq) ==
    IF seq = <<>> THEN [LOW |-> 0, MEDIUM |-> 0, HIGH |-> 0, CRITICAL |-> 0]
    ELSE LET rest == CountLevels(SubSeq(seq, 1, Len(seq) - 1))
             lvl  == seq[Len(seq)].riskLevel
         IN  CASE lvl = "LOW" -> [rest EXCEPT !.LOW = @ + 1]
               [] lvl = "MEDIUM" -> [rest EXCEPT !.MEDIUM = @ + 1]
               [] lvl = "HIGH" -> [rest EXCEPT !.HIGH = @ + 1]
               [] lvl = "CRITICAL" -> [rest EXCEPT !.CRITICAL = @ + 1]

\* the comparator (a, b) => b.avgRisk - a.avgRisk puts a before b
SortsBefore(a, b) == JsGt(JsSub(a.avgRisk, b.avgRisk), 0)

\* walletsArr.sort(...): a stable sort; stable insertion of x into sorted seq
RECURSIVE InsertSorted(_, _)
InsertSorted(seq, x) ==
    IF seq = <<>> THEN <<x>>
    ELSE IF SortsBefore(x, seq[Len(seq)])
         THEN Append(InsertSorted(SubSeq(seq, 1, Len(seq) - 1), x), seq[Len(seq)])
         ELSE Append(seq, x)

RECURSIVE SortByAvgRisk(_)
SortByAvgRisk(seq) ==
    IF seq = <<>> THEN <<>>
    ELSE InsertSorted(SortByAvgRisk(SubSeq(seq, 1, Len(seq) - 1)), seq[Len(seq)])

TopWallets == 5

RecentCount == 10

WalletTxCount == 50

\* GET /api/summary
SummaryBody ==
    LET walletsArr == SortByAvgRisk(walletStats)
    IN  [totalTransactions |-> Len(transactions),
         totalVolume |-> SumAmounts(transactions),
         byLevel |-> CountLevels(transactions),
         uniqueWallets |-> Len(walletsArr),
         topWallets |-> SliceHead(walletsArr, TopWallets),
         recent |-> Reverse(Slice(transactions, Num(-RecentCount)))]

\* the recent list taken by reversing the log itself:
\* transactions.reverse().slice(0, 10)
GetSummary_ReversesLogInPlace ==
    /\ res' = [route |-> "GET /api/summary", status |-> 200, body |-> SummaryBody]
    /\ transactions' = Reverse(transactions)
    /\ UNCHANGED <<walletStats, objectFn, nextId, now, probe>>

GetSummary ==
    /\ res' = [route |-> "GET /api/summary", status |-> 200, body |-> SummaryBody]
    /\ UNCHANGED <<transactions, walletStats, objectFn, nextId, now, probe>>

\* GET /api/wallet/:id
WalletResponse(id) ==
    LET stats == WalletGet(walletStats, objectFn, id)
        TouchesId(t) == t.source = id \/ t.dest = id
        txs == Reverse(Slice(SelectSeq(transactions, TouchesId), Num(-WalletTxCount)))
    IN  IF stats.t = "undefined" /\ Len(txs) = 0
        THEN [route |-> "GET /api/wallet/:id", status |-> 404,
              body |-> [error |-> "Wallet not found"]]
        ELSE [route |-> "GET /api/wallet/:id", status |-> 200,
              body |-> [walletId |-> id,
                        stats |-> IF stats.t = "undefined"
                                  THEN [t |-> "null", o |-> BareFn]
                                  ELSE stats,
                        transactions |-> txs]]

GetWallet(id) ==
    /\ res' = WalletResponse(id)
    /\ UNCHANGED <<transactions, walletStats, objectFn, nextId, now, probe>>

\* GET /
GetRoot ==
    /\ res' = [route |-> "GET /", status |-> 200,
               body |-> [text |-> "Qubic Fraud Backend is running."]]
    /\ UNCHANGED <<transactions, walletStats, objectFn, nextId, now, probe>>

\* GET /api/transactions/latest: no handler is registered for the path
GetLatest ==
    /\ res' = [route |-> "GET /api/transactions/latest", status |-> 404,
               body |-> [text |-> "Cannot GET /api/transactions/latest"]]
    /\ UNCHANGED <<transactions, walletStats, objectFn, nextId, now, probe>>

\* POST /api/transactions with a body that is not JSON: bodyParser.json()
\* fails the request before any handler runs
PostMalformed ==
    /\ res' = [route |-> "POST /api/transactions", status |-> 400,
               body |-> [text |-> "Bad Request"]]
    /\ UNCHANGED <<transactions, walletStats, objectFn, nextId, now, probe>>

\* the query parameters and path parameters the model sends
Levels == {QMissing, SVal("high"), SVal("LOW")}

Limits == {QMissing, SVal("0"), SVal("1"), SVal("2")}

WalletIds == {"0xA1B2", "0xC3D4", "constructor", "0xFFFF"}

(* ------------------- computeRisk called on its own -------------------- *)

\* the value of the result before the call
NoResult == [score |-> Undefined, level |-> "", reasons |-> <<>>]

NoProbe ==
    [called |-> FALSE,
     tx |-> [id |-> 0, amount |-> 0, source |-> "", dest |-> "", tick |-> 0,
             procedure |-> "", time |-> 0],
     walletInfo |-> [t |-> "undefined", o |-> BareFn],
     out |-> NoResult]

\* no request has been answered yet
NoResponse == [route |-> "", status |-> 0, body |-> [text |-> ""]]

ProbeAmounts ==
    {-500, 0, 9999, 10000, 49999, 50000, 99999, 100000, 999999, 1000000}

ProbeProcedures ==
    {"", "QxAddToBidOrder", "TransferShareOwnershipAndPossession", "IssueAsset",
     "Swap", "constructor"}

ProbeEnds ==
    {<<"0xA1B2", "0xC3D4">>, <<"0xA1B2", "0xA1B2">>, <<"", "">>, <<"0xA1B2", "">>}

ProbeTicks == {0, 12045, 12049}

ProbeLastTicks == {Null, Num(3), Num(12046), Num(12053)}

\* normalized transactions, as PostTransaction builds them
ProbeTxs ==
    { [id |-> 1, amount |-> a, source |-> e[1], dest |-> e[2], tick |-> k,
       procedure |-> p, time |-> 0] :
      a \in ProbeAmounts, e \in ProbeEnds, k \in ProbeTicks, p \in ProbeProcedures }

\* snapshots of the source wallet after n updates: a mean of n scores, or NaN
ProbeSnapshots ==
    UNION { { [walletId |-> "0xA1B2", txCount |-> Num(n), totalVolume |-> Num(0),
               avgRisk |-> avg, lastTick |-> lt, lastTime |-> Num(0)] :
              lt \in ProbeLastTicks,
              avg \in {Rat(0, 1), Rat(60 * n - 5, n), Rat(60, 1), Rat(100, 1), NaN} } :
            n \in 1..ProbeMaxCount }

ProbeInfos ==
    {[t |-> "undefined", o |-> BareFn]}
        \cup {[t |-> "object", o |-> w] : w \in ProbeSnapshots}

\* const risk = computeRisk(tx, walletInfo)
CallComputeRisk ==
    /\ ~probe.called
    /\ probe' = [probe EXCEPT !.called = TRUE,
                              !.out = computeRisk(probe.tx, probe.walletInfo)]
    /\ UNCHANGED <<transactions, walletStats, objectFn, nextId, now, res>>

Init ==
    /\ transactions = <<>>
    /\ walletStats = <<>>
    /\ objectFn = BareFn
    /\ nextId = 1
    /\ now = 0
    /\ res = NoResponse
    /\ probe = NoProbe

Next ==
    \/ \E body \in Bodies, clock \in ClockReadings(now) : PostTransaction(body, clock)
    \/ \E level \in Levels, limit \in Limits : GetTransactions(level, limit)
    \/ GetSummary
    \/ \E id \in WalletIds : GetWallet(id)
    \/ GetRoot
    \/ GetLatest
    \/ PostMalformed

Spec == Init /\ [][Next]_vars

\* computeRisk on every probed transaction and source snapshot
InitRisk ==
    /\ transactions = <<>>
    /\ walletStats = <<>>
    /\ objectFn = BareFn
    /\ nextId = 1
    /\ now = 0
    /\ res = NoResponse
    /\ \E tx \in ProbeTxs, walletInfo \in ProbeInfos :
          probe = [called |-> FALSE, tx |-> tx, walletInfo |-> walletInfo,
                   out |-> NoResult]

NextRisk == CallComputeRisk

SpecRisk == InitRisk /\ [][NextRisk]_vars

(* ------------------------------- claims -------------------------------- *)

\* the level the fixed thresholds assign to an integer score
ThresholdLevel(n) ==
    IF n >= 85 THEN "CRITICAL"
    ELSE IF n >= 65 THEN "HIGH"
    ELSE IF n >= 40 THEN "MEDIUM"
    ELSE "LOW"

IsInteger(v) == v.t = "number" /\ v.den = 1

\* C1: every transaction in the log has an integer riskScore in 0..100 and the
\* riskLevel the thresholds 85 / 65 / 40 assign to that score.
C1_ScoreInRangeLevelByThreshold ==
    \A i \in 1..Len(transactions) :
        LET t == transactions[i]
        IN  /\ IsInteger(t.riskScore)
            /\ t.riskScore.num \in 0..100
            /\ t.riskLevel = ThresholdLevel(t.riskScore.num)

\* C2: the k-th transaction of the log has id k and nextId is the log length
\* plus 1, after ingestions, reads and rejected requests alike.
C2_IdsDenseFromOne ==
    /\ \A k \in 1..Len(transactions) : transactions[k].id = k
    /\ nextId = Len(transactions) + 1

\* two ingestions followed by a rejected request
C2_Witness ==
    /\ Len(transactions) >= 2
    /\ res.route = "POST /api/transactions"
    /\ res.status = 400

\* t has wallet W as its source or its dest
Touches(t, W) == t.source = W \/ t.dest = W

\* the identifiers the claims range over: every one sent or queried, and ""
ClaimIds ==
    {""} \cup WalletIds
         \cup {transactions[i].source : i \in 1..Len(transactions)}
         \cup {transactions[i].dest : i \in 1..Len(transactions)}

HasSnapshot(W) == IndexOf(walletStats, W) # 0

\* C3: a wallet snapshot exists for W if and only if W is non-empty and is the
\* source or the dest of at least one transaction in the log.
C3_SnapshotIffAppeared ==
    \A W \in ClaimIds :
        HasSnapshot(W) <=>
            (W # "" /\ \E i \in 1..Len(transactions) : Touches(transactions[i], W))

\* the scores passed to updateWalletStats(W, ..) so far, in call order: the
\* score of each logged transaction, once for its source and once for its dest
RECURSIVE AppliedScores(_, _)
AppliedScores(log, W) ==
    IF log = <<>> THEN <<>>
    ELSE LET t == log[Len(log)]
         IN  AppliedScores(SubSeq(log, 1, Len(log) - 1), W)
                \o (IF t.source = W THEN <<t.riskScore>> ELSE <<>>)
                \o (IF t.dest = W THEN <<t.riskScore>> ELSE <<>>)

RECURSIVE SumNums(_)
SumNums(seq) == IF seq = <<>> THEN 0 ELSE Head(seq).num + SumNums(Tail(seq))

\* C4: for every wallet snapshot, avgRisk is the arithmetic mean of the scores
\* passed to its updateWalletStats calls: avgRisk * n = their sum.
C4_AvgRiskIsMean ==
    \A j \in 1..Len(walletStats) :
        LET w      == walletStats[j]
            scores == AppliedScores(transactions, w.walletId)
            n      == Len(scores)
        IN  /\ n > 0
            /\ \A k \in 1..n : IsInteger(scores[k])
            /\ w.avgRisk.t = "number"
            /\ w.avgRisk.num * n = SumNums(scores) * w.avgRisk.den

\* index of the most recent logged transaction touching W (0 when none)
LastTouch(W) ==
    LET idx == {i \in 1..Len(transactions) : Touches(transactions[i], W)}
    IN  IF idx = {} THEN 0 ELSE CHOOSE i \in idx : \A k \in idx : k <= i

\* C5: for every wallet snapshot, lastTick is the tick of the most recent
\* logged transaction touching the wallet, tick 0 included, and is never null.
C5_LastTickIsLatestTick ==
    \A j \in 1..Len(walletStats) :
        LET w == walletStats[j]
        IN  /\ LastTouch(w.walletId) # 0
            /\ w.lastTick = Num(transactions[LastTouch(w.walletId)].tick)

\* C6: for every wallet snapshot, txCount is the number of logged transactions
\* whose source or dest is the wallet, a self-transfer counting once.
C6_TxCountIsTouchCount ==
    \A j \in 1..Len(walletStats) :
        LET w == walletStats[j]
        IN  w.txCount =
              Num(Cardinality({i \in 1..Len(transactions) :
                                 Touches(transactions[i], w.walletId)}))

HistoryReasons ==
    {"New wallet sending large amount",
     "Experienced wallet doing unusually large transfer",
     "Rapid burst of transactions in a short tick window",
     "Wallet already has history of risky transactions"}

BrandNewReason == "Brand new wallet with significant amount"

ReasonTexts(t) == {t.reasons[k].text : k \in 1..Len(t.reasons)}

\* the source of the i-th transaction is non-empty and touched an earlier one
SeenBefore(i) ==
    /\ transactions[i].source # ""
    /\ \E j \in 1..(i - 1) : Touches(transactions[j], transactions[i].source)

\* C7: a logged transaction carries a wallet-history reason only if its source
\* appeared in an earlier transaction, and carries the brand-new-wallet reason
\* exactly when its source did not and its amount is at least 10,000; the two
\* kinds of reason never meet on one transaction.
C7_ScoredAgainstPriorSnapshot ==
    \A i \in 1..Len(transactions) :
        LET t == transactions[i]
        IN  /\ (ReasonTexts(t) \cap HistoryReasons # {}) => SeenBefore(i)
            /\ (BrandNewReason \in ReasonTexts(t))
                  <=> (~SeenBefore(i) /\ t.amount >= 10000)
            /\ ~(BrandNewReason \in ReasonTexts(t)
                   /\ ReasonTexts(t) \cap HistoryReasons # {})

\* weight the rule table gives a procedure name: 20 / 30 / 35 for the three
\* listed procedures, 5 for any other non-empty name, nothing for none
ProcedureWeight(p) ==
    CASE p = "" -> 0
      [] p = "QxAddToBidOrder" -> 20
      [] p = "TransferShareOwnershipAndPossession" -> 30
      [] p = "IssueAsset" -> 35
      [] OTHER -> 5

\* the rules that fire on tx and an optional source snapshot, as <<weight, text>>
\* in the fixed order: amount band, procedure, wallet history or the no-snapshot
\* rule, source equals destination
FiredRules(tx, walletInfo) ==
    LET has == walletInfo.t # "undefined"
        w   == walletInfo.o
        a   == tx.amount
    IN  (IF a >= 1000000
           THEN << <<45, "Very large transaction amount (>= 1M QU)">> >>
         ELSE IF a >= 100000
           THEN << <<30, "Large transaction amount (>= 100k QU)">> >>
         ELSE IF a >= 10000
           THEN << <<15, "Moderate transaction amount (>= 10k QU)">> >>
         ELSE <<>>)
        \o (IF tx.procedure = "" THEN <<>>
            ELSE IF ProcedureWeight(tx.procedure) = 5
              THEN << <<5, "Unknown / less common procedure">> >>
            ELSE << <<ProcedureWeight(tx.procedure), "High-risk procedure type">> >>)
        \o (IF has /\ w.txCount.num <= 2 /\ a >= 10000
            THEN << <<20, "New wallet sending large amount">> >> ELSE <<>>)
        \o (IF has /\ w.txCount.num >= 5 /\ a >= 50000
            THEN << <<15, "Experienced wallet doing unusually large transfer">> >>
            ELSE <<>>)
        \o (IF has /\ w.lastTick.t = "number" /\ Abs(tx.tick - w.lastTick.num) <= 3
            THEN << <<20, "Rapid burst of transactions in a short tick window">> >>
            ELSE <<>>)
        \o (IF has /\ w.avgRisk.t = "number" /\ w.avgRisk.num >= 60 * w.avgRisk.den
            THEN << <<10, "Wallet already has history of risky transactions">> >>
            ELSE <<>>)
        \o (IF ~has /\ a >= 10000
            THEN << <<10, "Brand new wallet with significant amount">> >> ELSE <<>>)
        \o (IF tx.source # "" /\ tx.source = tx.dest
            THEN << <<10, "Source and destination wallet are identical">> >>
            ELSE <<>>)

RECURSIVE SumWeights(_)
SumWeights(rules) ==
    IF rules = <<>> THEN 0 ELSE Head(rules)[1] + SumWeights(Tail(rules))

\* C8: computeRisk returns score = min(100, sum of the weights of the rules
\* that fire) and exactly one reason per fired rule, in the fixed order.
C8_ScoreIsCappedSumOfFiredRules ==
    probe.called =>
        LET fired == FiredRules(probe.tx, probe.walletInfo)
        IN  /\ probe.out.score = Num(Min(100, SumWeights(fired)))
            /\ Len(probe.out.reasons) = Len(fired)
            /\ \A k \in 1..Len(fired) : probe.out.reasons[k].text = fired[k][2]

ScenarioFirst(t) ==
    /\ t.amount = 250000
    /\ t.procedure = "QxAddToBidOrder"
    /\ t.source = "0xA1B2"
    /\ t.dest = "0xC3D4"
    /\ t.tick = 12045

ScenarioSecond(t) ==
    /\ t.amount = 60000
    /\ t.source = "0xA1B2"
    /\ t.dest = "0xC3D4"
    /\ t.tick = 12046

InScenario ==
    /\ Len(transactions) >= 2
    /\ ScenarioFirst(transactions[1])
    /\ ScenarioSecond(transactions[2])

LevelNames == {"LOW", "MEDIUM", "HIGH", "CRITICAL"}

\* sum of the amounts of the first n logged transactions
RECURSIVE AmountOfFirst(_)
AmountOfFirst(n) ==
    IF n = 0 THEN 0 ELSE transactions[n].amount + AmountOfFirst(n - 1)

InLevel(L) == {i \in 1..Len(transactions) : transactions[i].riskLevel = L}

C11_AmountsNonNegative ==
    [][ /\ \A i \in 1..Len(transactions') : transactions'[i].amount >= 0
        /\ \A j \in 1..Len(walletStats) :
              /\ walletStats'[j].walletId = walletStats[j].walletId
              /\ walletStats'[j].totalVolume.t = "number"
              /\ walletStats'[j].totalVolume.num >= walletStats[j].totalVolume.num
      ]_vars

\* the logged transactions whose riskLevel is level, compared without regard
\* to case; all of them when no level is asked for
MatchingLevel(level) ==
    LET Same(t) == ToUpperCase(t.riskLevel) = ToUpperCase(level.s)
    IN  IF level.t = "string" /\ level.s # ""
        THEN SelectSeq(transactions, Same)
        ELSE transactions

\* the min(n, Len(seq)) last entries of seq, the last one first
MostRecent(seq, n) ==
    [i \in 1..Min(n, Len(seq)) |-> seq[Len(seq) + 1 - i]]

\* the integer a limit text denotes
LimitNumber(text) ==
    CASE text = "0" -> 0
      [] text = "1" -> 1
      [] text = "2" -> 2

\* C12: GET /api/transactions with limit = N, for every N >= 0 sent, answers
\* with exactly the min(N, number of matching transactions) most recently
\* logged transactions that match the level filter, newest first.
C12_LimitReturnsMostRecent ==
    [][ \A level \in Levels, limit \in Limits \ {QMissing} :
          GetTransactions(level, limit) =>
              res'.body.list =
                  MostRecent(MatchingLevel(level), LimitNumber(limit.s))
      ]_vars

\* the same for every N >= 1 sent
LimitAtLeastOne_ReturnsMostRecent ==
    [][ \A level \in Levels, limit \in Limits \ {QMissing, SVal("0")} :
          GetTransactions(level, limit) =>
              res'.body.list =
                  MostRecent(MatchingLevel(level), LimitNumber(limit.s))
      ]_vars

\* X is the source or the dest of a logged transaction
Appeared(X) == \E i \in 1..Len(transactions) : Touches(transactions[i], X)

\* C13: GET /api/wallet/X answers not-found if and only if X never appeared
\* as source or dest of a logged transaction, and otherwise answers with
\* stats that are a snapshot, not null and not left out.
C13_NotFoundIffNeverAppeared ==
    [][ \A id \in WalletIds :
          GetWallet(id) =>
              /\ (res'.status = 404) <=> ~Appeared(id)
              /\ Appeared(id) =>
                    (res'.status = 200 /\ res'.body.stats.t = "object")
      ]_vars

\* the wallet map and the inherited function after the first k logged
\* transactions, replayed from the log
RECURSIVE MapAfter(_)
MapAfter(k) ==
    IF k = 0 THEN [stats |-> <<>>, ofn |-> BareFn]
    ELSE LET t    == transactions[k]
             risk == [score |-> t.riskScore]
             st1  == updateWalletStats(MapAfter(k - 1), t.source, risk, t, t.time)
         IN  IF t.dest = SObj.s THEN st1
             ELSE updateWalletStats(st1, t.dest, risk, t, t.time)

\* the snapshot the wallet map held for the source of the i-th logged
\* transaction when that transaction was ingested, if it held one
SourceSnapshotAt(i) ==
    LET stats == MapAfter(i - 1).stats
        W     == transactions[i].source
    IN  IF IndexOf(stats, W) # 0
        THEN [t |-> "object", o |-> stats[IndexOf(stats, W)]]
        ELSE [t |-> "undefined", o |-> BareFn]

SameEvent(a, b) ==
    /\ a.amount = b.amount
    /\ a.procedure = b.procedure
    /\ a.source = b.source
    /\ a.dest = b.dest
    /\ a.tick = b.tick

SameTriple(a, b) ==
    /\ a.riskScore = b.riskScore
    /\ a.riskLevel = b.riskLevel
    /\ a.reasons = b.reasons

\* C14: two ingested transactions with the same amount, procedure, source,
\* dest and tick, whose source had the same snapshot in the wallet map when
\* each was ingested, are stored with the same score, level and reasons,
\* whatever their ids, their ingestion times and the other wallets' snapshots.
C14_TripleDeterminedByInputs ==
    \A i, j \in 1..Len(transactions) :
        (SameEvent(transactions[i], transactions[j])
            /\ SourceSnapshotAt(i) = SourceSnapshotAt(j))
        => SameTriple(transactions[i], transactions[j])

\* C15: a POST /api/transactions that is answered with an error (a body that
\* is not JSON, or an exception in the handler) leaves the log, the wallet
\* map and the id counter as they were before the request.
C15_FailedRequestLeavesState ==
    [][ (res'.route = "POST /api/transactions" /\ res'.status \in {400, 500})
            => UNCHANGED <<transactions, walletStats, nextId>>
      ]_vars

\* C16: GET /api/transactions/latest is answered with status 200 and the last
\* entry of the log, or with an empty object when the log is empty.
C16_LatestIsLastLogEntry ==
    res.route = "GET /api/transactions/latest" =>
        /\ res.status = 200
        /\ res.body = IF transactions = <<>> THEN [text |-> "{}"]
                      ELSE [transaction |-> transactions[Len(transactions)]]

\* the step logs t, a transaction between two different wallet identifiers
IngestsBetweenTwo(t) ==
    /\ transactions' = Append(transactions, t)
    /\ t.source # ""
    /\ t.dest # ""
    /\ t.source # t.dest
    /\ t.dest # SObj.s

\* the step applies one update with t to the snapshot of W: the snapshot
\* exists afterwards, with one more transaction counted, the amount added, the
\* stored score averaged in and the tick recorded
UpdatedOnceWith(W, t) ==
    LET before == IF HasSnapshot(W) THEN walletStats[IndexOf(walletStats, W)]
                  ELSE NewSnapshot(W)
        n      == before.txCount.num
    IN  /\ IndexOf(walletStats', W) # 0
        /\ LET after == walletStats'[IndexOf(walletStats', W)]
           IN  /\ after.txCount = Num(n + 1)
               /\ after.totalVolume = Num(before.totalVolume.num + t.amount)
               /\ IsInteger(t.riskScore)
               /\ after.avgRisk.t = "number"
               /\ after.avgRisk.num * (n + 1) * before.avgRisk.den =
                     (before.avgRisk.num * n
                        + t.riskScore.num * before.avgRisk.den) * after.avgRisk.den
               /\ after.lastTick = Num(t.tick)

\* every snapshot of a wallet other than the source and the dest of t is
\* left as it was, and no snapshot of such a wallet appears
OthersUntouched(t) ==
    /\ \A j \in 1..Len(walletStats) :
          walletStats[j].walletId \notin {t.source, t.dest}
              => walletStats'[j] = walletStats[j]
    /\ \A j \in 1..Len(walletStats') :
          walletStats'[j].walletId \notin {t.source, t.dest}
              => j <= Len(walletStats)

\* C17: ingesting one transaction with distinct non-empty source and dest
\* appends it to the log, applies exactly one update to the source snapshot
\* and one to the dest snapshot, both with the stored riskScore, the amount
\* and the tick, and leaves every other wallet's snapshot unchanged.
C17_OneUpdateEachForSourceAndDest ==
    [][ Len(transactions') = Len(transactions) + 1 =>
          LET t == transactions'[Len(transactions')]
          IN  IngestsBetweenTwo(t) =>
                /\ UpdatedOnceWith(t.source, t)
                /\ UpdatedOnceWith(t.dest, t)
                /\ OthersUntouched(t)
      ]_vars

NewWalletReason == "New wallet sending large amount"

EstablishedReason == "Experienced wallet doing unusually large transfer"

\* the texts of a list of reasons
Texts(reasons) == {reasons[k].text : k \in 1..Len(reasons)}

\* C18 as stated: there is a transaction and a prior source snapshot on which
\* computeRisk gives both the new-wallet reason and the established-wallet
\* reason; looked for, once computeRisk has run, among all the probed
\* transactions and snapshots.
C18_MayFireTogether ==
    probe.called =>
        \E tx \in ProbeTxs, walletInfo \in ProbeInfos :
            {NewWalletReason, EstablishedReason}
                \subseteq Texts(computeRisk(tx, walletInfo).reasons)

\* C18 amended: the new-wallet reason appears exactly when there is a prior
\* snapshot with txCount <= 2 and the amount is at least 10,000, the
\* established-wallet reason exactly when there is one with txCount >= 5 and
\* the amount is at least 50,000, and so never both on one transaction.
C18_NeverFireTogether ==
    probe.called =>
        LET has   == probe.walletInfo.t # "undefined"
            n     == probe.walletInfo.o.txCount
            texts == Texts(probe.out.reasons)
        IN  /\ (NewWalletReason \in texts)
                  <=> (has /\ n.t = "number" /\ n.num <= 2 * n.den
                           /\ probe.tx.amount >= 10000)
            /\ (EstablishedReason \in texts)
                  <=> (has /\ n.t = "number" /\ n.num >= 5 * n.den
                           /\ probe.tx.amount >= 50000)
            /\ ~({NewWalletReason, EstablishedReason} \subseteq texts)

\* computeRisk ran on an amount that meets both rules' amount thresholds and a
\* snapshot of five or more transactions: the established-wallet rule fired
C18_Witness ==
    /\ probe.called
    /\ probe.tx.amount >= 50000
    /\ probe.walletInfo.t = "object"
    /\ probe.walletInfo.o.txCount.num >= 5
    /\ EstablishedReason \in Texts(probe.out.reasons)

\* the routes of the GET handlers
GetRoutes ==
    {"GET /api/transactions", "GET /api/summary", "GET /api/wallet/:id", "GET /"}

\* C19: in every step the log keeps each transaction it holds at its position
\* with all of its fields, growing only at the end, and a step answering a
\* GET endpoint (transactions, summary, wallet, health) leaves the log, the
\* wallet map and the id counter unchanged.
C19_LogAppendOnlyReadsChangeNothing ==
    [][ /\ Len(transactions') >= Len(transactions)
        /\ \A k \in 1..Len(transactions) : transactions'[k] = transactions[k]
        /\ res'.route \in GetRoutes
              => UNCHANGED <<transactions, walletStats, objectFn, nextId>>
      ]_vars

\* a summary was served with two transactions in the log, the second
\* ingested after the first
C19_Witness ==
    /\ res.route = "GET /api/summary"
    /\ Len(transactions) = 2
    /\ transactions[1] # transactions[2]
    /\ Len(walletStats) >= 2

(* ---- the same statements over names no object literal inherits --------- *)

\* no logged transaction names an inherited property as procedure or wallet,
\* and none has an object for its dest
OwnNamesOnly ==
    \A i \in 1..Len(transactions) :
        /\ transactions[i].procedure \notin ObjectPrototypeKeys
        /\ transactions[i].source \notin ObjectPrototypeKeys
        /\ transactions[i].dest \notin ObjectPrototypeKeys
        /\ transactions[i].dest # SObj.s

\* scores and levels are in range while no inherited name has been logged
ScoreInRange_OwnNames == OwnNamesOnly => C1_ScoreInRangeLevelByThreshold

\* snapshots follow appearances while no inherited name has been logged
SnapshotIffAppeared_OwnNames == OwnNamesOnly => C3_SnapshotIffAppeared

\* the rolling mean is exact while no inherited name has been logged
AvgRiskIsMean_OwnNames == OwnNamesOnly => C4_AvgRiskIsMean

\* scoring reads the prior snapshot while no inherited name has been logged
PriorSnapshot_OwnNames == OwnNamesOnly => C7_ScoredAgainstPriorSnapshot

\* computeRisk follows the rule table on every procedure no object inherits
RuleTable_OwnNames ==
    probe.tx.procedure \notin ObjectPrototypeKeys
        => C8_ScoreIsCappedSumOfFiredRules

\* not-found follows appearances for every identifier no object inherits,
\* while no inherited name has been logged
NotFoundIffNeverAppeared_OwnNames ==
    [][ \A id \in WalletIds \ ObjectPrototypeKeys :
          (OwnNamesOnly /\ GetWallet(id)) =>
              /\ (res'.status = 404) <=> ~Appeared(id)
              /\ Appeared(id) =>
                    (res'.status = 200 /\ res'.body.stats.t = "object")
      ]_vars

\* the log replays to the wallet map
ReplayGivesWalletMap ==
    /\ MapAfter(Len(transactions)).stats = walletStats
    /\ MapAfter(Len(transactions)).ofn = objectFn

\* a transaction whose source no object inherits is stored with the triple
\* computeRisk gives for its five fields and the source's snapshot alone, the
\* id and the time set to fixed values
TripleIsFunctionOfInputs_OwnNames ==
    [][ (Len(transactions') = Len(transactions) + 1
           /\ transactions'[Len(transactions')].source \notin ObjectPrototypeKeys)
        => LET t    == transactions'[Len(transactions')]
               own  == IF IndexOf(walletStats, t.source) # 0
                       THEN [t |-> "object",
                             o |-> walletStats[IndexOf(walletStats, t.source)]]
                       ELSE [t |-> "undefined", o |-> BareFn]
               risk == computeRisk([t EXCEPT !.id = 0, !.time = 0], own)
           IN  /\ t.riskScore = risk.score
               /\ t.riskLevel = risk.level
               /\ t.reasons = risk.reasons
      ]_vars

\* one update each for source and dest while no inherited name is logged
OneUpdateEach_OwnNames ==
    [][ Len(transactions') = Len(transactions) + 1 =>
          LET t == transactions'[Len(transactions')]
          IN  (IngestsBetweenTwo(t)
                 /\ \A i \in 1..Len(transactions') :
                       /\ transactions'[i].procedure \notin ObjectPrototypeKeys
                       /\ transactions'[i].source \notin ObjectPrototypeKeys
                       /\ transactions'[i].dest \notin ObjectPrototypeKeys) =>
                /\ UpdatedOnceWith(t.source, t)
                /\ UpdatedOnceWith(t.dest, t)
                /\ OthersUntouched(t)
      ]_vars

====
